---- MODULE Spec2Model ----
(***************************************************************************)
(* Construction of an NginxObject (amplify/agent/objects/nginx/object.py): *)
(* field resolution, config parse, status endpoint resolution (plus pass,  *)
(* then stub pass) and collector assembly.  One construction is one        *)
(* sequential process; pc is its position in __init__.  Strings the code   *)
(* inspects (urls, response bodies) are sequences of one-character         *)
(* strings, so that startswith, '%s%s' and 'in' are computed.              *)
(***************************************************************************)
EXTENDS Integers, Sequences, FiniteSets, TLC

\* ------------------------------------------------------------- bounds
\* longest candidate list the parsed configuration yields
MaxUrls == 2
\* most access_log sources / error_log sources of the parsed configuration
MaxAccessLogs == 2
MaxErrorLogs == 1

\* ------------------------------------------------------------- strings
\* Python None for an optional url
None == <<"<None>">>

HTTP == <<"h", "t", "t", "p", ":", "/", "/">>
HTTPS == <<"h", "t", "t", "p", "s", ":", "/", "/">>
\* the tuple ('http://', 'https://') of the inner loop
PROTOS == <<HTTP, HTTPS>>
\* the argument of url.startswith('http')
HttpWord == <<"h", "t", "t", "p">>
\* the literal 'Active connections'
Marker ==
    <<"A", "c", "t", "i", "v", "e", " ", "c", "o", "n", "n", "e", "c", "t", "i", "o", "n", "s">>

\* str.startswith
StartsWith(s, prefix) ==
    /\ Len(s) >= Len(prefix)
    /\ SubSeq(s, 1, Len(prefix)) = prefix

\* the 'in' operator on strings
Contains(s, sub) ==
    \E k \in 0..(Len(s) - Len(sub)) : SubSeq(s, k + 1, k + Len(sub)) = sub

\* dict.get(key, default)
Get(d, key, default) == IF key \in DOMAIN d THEN d[key] ELSE default

\* the empty dict
EmptyDict == [k \in {} |-> 0]

\* ------------------------------------------------------------- probe responses
\* what context.http_client.get does: raises, returns None, or returns a body
RAISE == [kind |-> "raise", body |-> <<>>]
NONE == [kind |-> "none", body |-> <<>>]
Body(b) == [kind |-> "body", body |-> b]

Bodies ==
    { <<>>,
      Marker,
      <<"x", " ">> \o Marker \o <<":", "1">>,
      SubSeq(Marker, 1, Len(Marker) - 1),
      <<"{", "}">> }

Responses == {RAISE, NONE} \cup {Body(b) : b \in Bodies}

\* truth value of 'if status_response:'
Truthy(resp) == resp.kind = "body" /\ Len(resp.body) > 0

\* a classification that skips the marker test of the plain-text flavor
AliveNoMarkerCheck(resp, json) == resp.kind # "raise" /\ Truthy(resp)

\* lines 157-165: does this response make __get_alive_status return full_url

Alive(resp, json) ==
    /\ resp.kind # "raise"
    /\ Truthy(resp)
    /\ (json \/ Contains(resp.body, Marker))

\* line 156
FullUrl(proto, url) ==
    IF ~StartsWith(url, HttpWord) THEN proto \o url ELSE url

\* ------------------------------------------------------------- inputs
\* candidate urls as NginxConfig collects them: host/path with or without scheme
HostA == <<"a">>
HostB == <<"b">>
SecureC == HTTPS \o <<"c">>
Httpd == <<"h", "t", "t", "p", "d">>
Candidates == {HostA, HostB, SecureC, Httpd}

UrlLists == UNION {[1..n -> Candidates] : n \in 0..MaxUrls}

\* http.resolve_uri(predefined_uri) of the agent config, when configured
OverrideUrls == {<<"o">>, HTTP \o <<"o">>}

\* context.app_config.get('nginx', {}) with an optional key
NginxSections(key) ==
    {EmptyDict} \cup {[k \in {key} |-> o] : o \in OverrideUrls}

\* poll_intervals values
IntervalKeys == {"default", "meta", "metrics", "configs", "logs"}
PollIntervals ==
    {[k \in IntervalKeys |-> 20]}
    \cup {[k \in IntervalKeys \ {missing} |-> 20] : missing \in IntervalKeys \ {"default"}}

FlagKeys == {"upload_config", "run_test", "upload_ssl"}

\* a dict with any subset of the flag keys, each False or True
FlagDicts == UNION {[S -> BOOLEAN] : S \in SUBSET FlagKeys}

\* context.app_config['containers']: with or without 'nginx', with or
\* without poll_intervals
ContainerSections ==
    {EmptyDict}
    \cup {[k \in {"nginx"} |-> EmptyDict]}
    \cup {[k \in {"nginx"} |-> [j \in {"poll_intervals"} |-> p]] : p \in PollIntervals}

FullIntervals == [k \in IntervalKeys |-> 20]

\* containers.nginx with full poll_intervals and the given flag defaults
NginxContainer(flags) ==
    [k \in {"nginx"} |-> ("poll_intervals" :> FullIntervals) @@ flags]

FormatNames == {"main", "custom"}
\* log_formats of the parsed configuration: 'custom' has no definition
LogFormats == [k \in {"main"} |-> "fmt_main"]

AccessLogDicts == UNION {[S -> FormatNames] : S \in SUBSET (1..MaxAccessLogs)}
ErrorLogDicts == UNION {[S -> {"error"}] : S \in SUBSET (1..MaxErrorLogs)}

NoUrls == [stub_status_urls |-> <<>>,
           plus_status_internal_urls |-> <<>>,
           plus_status_external_urls |-> <<>>]

Parsed(urls, access, error) ==
    [stub_status_urls |-> urls.stub_status_urls,
     plus_status_internal_urls |-> urls.plus_status_internal_urls,
     plus_status_external_urls |-> urls.plus_status_external_urls,
     access_logs |-> access,
     error_logs |-> error,
     log_formats |-> LogFormats]

\* an ordinary discovery: no root, no overrides, nothing to probe, no logs
Lean ==
    [cls |-> "NginxObject",
     data |-> [k \in {"local_id"} |-> "lid"],
     root_object |-> "None",
     containers |-> NginxContainer(EmptyDict),
     nginx |-> EmptyDict,
     parsed |-> Parsed(NoUrls, EmptyDict, EmptyDict)]

\* an ordinary discovery with one candidate per list and one log of each kind
OneOfEach ==
    [Lean EXCEPT !.parsed = Parsed(
        [stub_status_urls |-> <<HostA>>,
         plus_status_internal_urls |-> <<HostA>>,
         plus_status_external_urls |-> <<HostB>>],
        [k \in {1} |-> "main"], [k \in {1} |-> "error"])]

\* behaviour flags vary: per-instance overrides against deployment defaults
InputsFlags ==
    {[Lean EXCEPT !.data = @ @@ o, !.containers = NginxContainer(d)] :
        o \in FlagDicts, d \in FlagDicts}

\* identity varies: class, root_uuid of the discovery data, root object
InputsIdentity ==
    {[OneOfEach EXCEPT !.cls = c, !.data = @ @@ r, !.root_object = ro] :
        c \in {"NginxObject", "ContainerNginxObject"},
        r \in {EmptyDict, [k \in {"root_uuid"} |-> "uuid-data"]},
        ro \in {"None", "uuid-root"}}

\* the deployment configuration's containers section varies
InputsIntervals ==
    {[OneOfEach EXCEPT !.containers = c] : c \in ContainerSections}

\* one candidate list varies at a time, with or without the operator override
InputsResolve ==
    {[Lean EXCEPT !.parsed.stub_status_urls = l, !.nginx = n] :
        l \in UrlLists, n \in NginxSections("stub_status")}
    \cup {[Lean EXCEPT !.parsed.plus_status_internal_urls = l, !.nginx = n] :
        l \in UrlLists, n \in NginxSections("plus_status")}
    \cup {[Lean EXCEPT !.parsed.plus_status_external_urls = l, !.nginx = n] :
        l \in UrlLists, n \in NginxSections("plus_status")}

\* the log sources vary
InputsAssemble ==
    {[Lean EXCEPT !.parsed.access_logs = a, !.parsed.error_logs = e] :
        a \in AccessLogDicts, e \in ErrorLogDicts}

Inputs ==
    InputsFlags \cup InputsIdentity \cup InputsIntervals \cup InputsResolve
    \cup InputsAssemble

\* ------------------------------------------------------------- state
VARIABLES
    input,                \* kwargs, app_config, root object and nginx.conf content
    pc,                   \* position of the constructor
    status,               \* "constructing", "active" (returned) or "failed" (raised)
    error,                \* the exception that left __init__, "" if none
    self,                 \* the object's fields
    config,               \* self.config: the NginxConfig object
    internal_status_url,  \* local of get_alive_plus_status_urls
    scan,                 \* frame of __get_alive_status
    todo,                 \* keys the running iteritems() loop has yet to yield
    probes,               \* every http_client.get issued so far
    events,               \* every eventd.event emitted so far
    attempts              \* every log collector construction attempted so far

vars ==
    <<input, pc, status, error, self, config, internal_status_url, scan, todo,
      probes, events, attempts>>

\* line 30: the fallback poll interval
DefaultInterval == 10

NoScan == [i |-> 1, p |-> 1, status_response |-> NONE, ret |-> None]

Unset ==
    [intervals |-> EmptyDict,
     root_uuid |-> "None",
     local_id_cache |-> "None",
     upload_config |-> FALSE,
     run_config_test |-> FALSE,
     upload_ssl |-> FALSE,
     plus_status_external_url |-> None,
     plus_status_internal_url |-> None,
     plus_status_enabled |-> FALSE,
     stub_status_url |-> None,
     stub_status_enabled |-> FALSE,
     collectors |-> <<>>]

EmptyConfig ==
    [stub_status_urls |-> <<>>,
     plus_status_internal_urls |-> <<>>,
     plus_status_external_urls |-> <<>>,
     access_logs |-> EmptyDict,
     error_logs |-> EmptyDict,
     log_formats |-> EmptyDict]

Init ==
    /\ input \in Inputs
    /\ pc = "new"
    /\ status = "constructing"
    /\ error = ""
    /\ self = Unset
    /\ config = EmptyConfig
    /\ internal_status_url = None
    /\ scan = NoScan
    /\ todo = {}
    /\ probes = <<>>
    /\ events = <<>>
    /\ attempts = <<>>

\* an exception leaves __init__ at the current position
Raise(name) ==
    /\ status' = "failed"
    /\ error' = name
    /\ pc' = pc

\* 'if x:' on an optional url
TruthyUrl(u) == u # None /\ Len(u) > 0

\* a constructor that attaches the fixed collectors before the stub pass
FlowCollectorsBeforeStub(at) ==
    CASE at = "new" -> "parse"
      [] at = "parse" -> "plus_start"
      [] at = "plus_start" -> "plus_internal"
      [] at = "plus_internal" -> "plus_external"
      [] at = "plus_external" -> "meta"
      [] at = "meta" -> "metrics"
      [] at = "metrics" -> "configs"
      [] at = "configs" -> "stub_start"
      [] at = "stub_start" -> "stub"
      [] at = "stub" -> "access_logs"
      [] at = "access_logs" -> "error_logs"
      [] OTHER -> "done"

\* lines 54-72: the statement order of __init__ and of the two resolver
\* methods: the position that follows each position
Flow(at) ==
    CASE at = "new" -> "parse"
      [] at = "parse" -> "plus_start"
      [] at = "plus_start" -> "plus_internal"
      [] at = "plus_internal" -> "plus_external"
      [] at = "plus_external" -> "stub_start"
      [] at = "stub_start" -> "stub"
      [] at = "stub" -> "meta"
      [] at = "meta" -> "metrics"
      [] at = "metrics" -> "configs"
      [] at = "configs" -> "access_logs"
      [] at = "access_logs" -> "error_logs"
      [] OTHER -> "done"

\* ------------------------------------------------------------- fields (lines 26-52)
\* line 30
Intervals(containers) ==
    Get(Get(containers, "nginx", EmptyDict), "poll_intervals",
        [k \in {"default"} |-> DefaultInterval])

\* lines 32-33: (data.get('root_uuid') or root_object.uuid) if root_object else None
RootUuid(data, root_object) ==
    IF root_object # "None"
    THEN (IF Get(data, "root_uuid", "None") # "None"
          THEN data["root_uuid"]
          ELSE root_object)
    ELSE "None"

\* lines 44-46: data.get(key) or default_config.get(key, False)
Flag(data, default_config, key) ==
    IF Get(data, key, FALSE) THEN data[key] ELSE Get(default_config, key, FALSE)

\* lines 26-52.  The process facts of lines 35-40 (pid, version, workers,
\* prefix, bin_path, conf_path) are copied from data unchanged and read by
\* nothing below; nginx_v (line 49) either returns or raises.
Begin ==
    /\ pc = "new" /\ status = "constructing"
    /\ LET fields == [self EXCEPT
                        !.intervals = Intervals(input.containers),
                        !.root_uuid = RootUuid(input.data, input.root_object),
                        !.local_id_cache = input.data["local_id"]]
       IN IF "nginx" \notin DOMAIN input.containers
          THEN /\ self' = fields
               /\ Raise("KeyError")
          ELSE \E nginx_v_ok \in BOOLEAN :
                LET default_config == input.containers["nginx"]
                    flagged == [fields EXCEPT
                        !.upload_config = Flag(input.data, default_config, "upload_config"),
                        !.run_config_test = Flag(input.data, default_config, "run_test"),
                        !.upload_ssl = Flag(input.data, default_config, "upload_ssl")]
                IN /\ self' = flagged
                   /\ IF nginx_v_ok
                      THEN /\ pc' = Flow(pc)
                           /\ UNCHANGED <<status, error>>
                      ELSE Raise("NginxVError")
    /\ UNCHANGED <<input, config, internal_status_url, scan, todo, probes, events, attempts>>

\* lines 54-55
FullParse ==
    /\ pc = "parse" /\ status = "constructing"
    /\ \E parse_ok \in BOOLEAN :
        IF parse_ok
        THEN /\ config' = input.parsed
             /\ pc' = Flow(pc)
             /\ UNCHANGED <<status, error>>
        ELSE /\ Raise("ParseError")
             /\ UNCHANGED config
    /\ UNCHANGED <<input, self, internal_status_url, scan, todo, probes, events, attempts>>

\* ------------------------------------------------------------- resolver (lines 79-166)
ScanPcs == {"plus_internal", "plus_external", "stub"}

\* the url_list argument of the running __get_alive_status call: the config's
\* own list object, not a copy
ScanList ==
    CASE pc = "plus_internal" -> config.plus_status_internal_urls
      [] pc = "plus_external" -> config.plus_status_external_urls
      [] pc = "stub" -> config.stub_status_urls
      [] OTHER -> <<>>

\* the json argument of the running call (lines 91, 126, 133)
ScanJson == pc # "stub"

\* the scan has returned: a url from line 161 or None from line 166
ScanReturned == scan.ret # None \/ scan.i > Len(ScanList)

\* a scan whose except clause leaves the inner loop
NextPositionBreakOnRaise(s) ==
    IF s.p < Len(PROTOS) /\ s.status_response.kind # "raise"
    THEN [s EXCEPT !.p = s.p + 1]
    ELSE [s EXCEPT !.i = s.i + 1, !.p = 1]

\* lines 154-155: the position after a probe that did not return
NextPosition(s) ==
    IF s.p < Len(PROTOS)
    THEN [s EXCEPT !.p = s.p + 1]
    ELSE [s EXCEPT !.i = s.i + 1, !.p = 1]

\* the predefined uri put in front of the list
WithOverridePrepended(urls, section, key) ==
    IF key \in DOMAIN section THEN <<section[key]>> \o urls ELSE urls

\* lines 87-89 and 122-124: the predefined uri is appended to the list
WithOverride(urls, section, key) ==
    IF key \in DOMAIN section THEN Append(urls, section[key]) ELSE urls

Event(flavor, outcome, url, filename) ==
    [flavor |-> flavor, outcome |-> outcome, url |-> url, filename |-> filename]

\* lines 92-102
StubEvents(stub_status_url) ==
    IF TruthyUrl(stub_status_url)
    THEN <<Event("stub_status", "detected", stub_status_url, 0)>>
    ELSE <<Event("stub_status", "not_found", None, 0)>>

\* an internal scan that also reports its failure
PlusInternalEventsWithNotFound(url) ==
    IF TruthyUrl(url)
    THEN <<Event("plus_internal", "detected", url, 0)>>
    ELSE <<Event("plus_internal", "not_found", None, 0)>>

\* lines 127-131
PlusInternalEvents(url) ==
    IF TruthyUrl(url)
    THEN <<Event("plus_internal", "detected", url, 0)>>
    ELSE <<>>

\* no url synthesized for an unreachable external endpoint
PlusExternalUrlNoSynthesis(ret, external_urls) == ret

\* lines 134-136
PlusExternalUrl(ret, external_urls) ==
    IF Len(external_urls) > 0 /\ ~TruthyUrl(ret)
    THEN HTTP \o external_urls[1]
    ELSE ret

\* lines 134, 138-141
PlusExternalEvents(url, external_urls) ==
    IF Len(external_urls) > 0
    THEN <<Event("plus_external", "detected", url, 0)>>
    ELSE <<>>

\* a plus flag that looks at the external url alone
PlusStatusEnabledExternalOnly(external_url, internal_url) == TruthyUrl(external_url)

\* line 59
PlusStatusEnabled(external_url, internal_url) ==
    TruthyUrl(external_url) \/ TruthyUrl(internal_url)

\* line 63
StubStatusEnabled(stub_status_url) == TruthyUrl(stub_status_url)

\* lines 119-126: get_alive_plus_status_urls up to the first scan
PlusStart ==
    /\ pc = "plus_start" /\ status = "constructing"
    /\ config' = [config EXCEPT !.plus_status_internal_urls =
                    WithOverride(@, input.nginx, "plus_status")]
    /\ scan' = NoScan
    /\ pc' = Flow(pc)
    /\ UNCHANGED <<input, status, error, self, internal_status_url, todo, probes,
                   events, attempts>>

\* lines 154-165: one pass of the inner loop body, one http_client.get
Probe ==
    /\ pc \in ScanPcs /\ status = "constructing"
    /\ ~ScanReturned
    /\ \E resp \in Responses :
        LET url == ScanList[scan.i]
            full_url == FullUrl(PROTOS[scan.p], url)
            alive == Alive(resp, ScanJson)
            seen == [scan EXCEPT !.status_response = resp]
        IN /\ probes' = Append(probes,
                [pass |-> pc, idx |-> scan.i, url |-> full_url, alive |-> alive])
           /\ scan' = IF alive THEN [seen EXCEPT !.ret = full_url] ELSE NextPosition(seen)
    /\ UNCHANGED <<input, pc, status, error, self, config, internal_status_url, todo,
                   events, attempts>>

\* lines 126-133: the internal scan has returned, the external one starts
PlusInternalDone ==
    /\ pc = "plus_internal" /\ status = "constructing"
    /\ ScanReturned
    /\ internal_status_url' = scan.ret
    /\ events' = events \o PlusInternalEvents(scan.ret)
    /\ scan' = NoScan
    /\ pc' = Flow(pc)
    /\ UNCHANGED <<input, status, error, self, config, todo, probes, attempts>>

\* lines 133-143 and 58-59: the external scan has returned, the call returns
PlusReturn ==
    /\ pc = "plus_external" /\ status = "constructing"
    /\ ScanReturned
    /\ LET external_status_url == PlusExternalUrl(scan.ret, config.plus_status_external_urls)
       IN /\ events' = events \o
                PlusExternalEvents(external_status_url, config.plus_status_external_urls)
          /\ self' = [self EXCEPT
                !.plus_status_external_url = external_status_url,
                !.plus_status_internal_url = internal_status_url,
                !.plus_status_enabled =
                    PlusStatusEnabled(external_status_url, internal_status_url)]
    /\ internal_status_url' = None
    /\ scan' = NoScan
    /\ pc' = Flow(pc)
    /\ UNCHANGED <<input, status, error, config, todo, probes, attempts>>

\* lines 85-91: get_alive_stub_status_url up to the scan
StubStart ==
    /\ pc = "stub_start" /\ status = "constructing"
    /\ config' = [config EXCEPT !.stub_status_urls =
                    WithOverride(@, input.nginx, "stub_status")]
    /\ scan' = NoScan
    /\ pc' = Flow(pc)
    /\ UNCHANGED <<input, status, error, self, internal_status_url, todo, probes,
                   events, attempts>>

\* lines 91-103 and 62-67: the stub scan has returned, the call returns
StubReturn ==
    /\ pc = "stub" /\ status = "constructing"
    /\ ScanReturned
    /\ events' = events \o StubEvents(scan.ret)
    /\ self' = [self EXCEPT
            !.stub_status_url = scan.ret,
            !.stub_status_enabled = StubStatusEnabled(scan.ret),
            !.collectors = <<>>]
    /\ scan' = NoScan
    /\ pc' = Flow(pc)
    /\ UNCHANGED <<input, status, error, config, internal_status_url, todo, probes,
                   attempts>>

\* ------------------------------------------------------------- assembly (lines 168-232)
Collector(cls, interval, filename, log_format, level) ==
    [cls |-> cls, interval |-> interval, filename |-> filename,
     log_format |-> log_format, level |-> level]

\* what constructing a log collector does: succeeds or raises
CtorOutcomes == {"ok", "IOError", "OSError", "ValueError"}

\* an except clause that names IOError alone
CaughtErrorsIOErrorOnly == {"IOError"}

\* a bare except clause
CaughtErrorsBareExcept == CtorOutcomes \ {"ok"}

\* lines 203 and 226: the exception classes the except clauses name
CaughtErrors == {"IOError", "OSError"}

\* a lookup that falls back to the 'main' format
LookupFormatDefaultMain(log_formats, format_name) ==
    Get(log_formats, format_name, Get(log_formats, "main", "None"))

\* line 190: self.config.log_formats.get(format_name)
LookupFormat(log_formats, format_name) == Get(log_formats, format_name, "None")

\* a collector put in front of the list
AttachInFront(collectors, collector) == <<collector>> \o collectors

\* lines 170, 176, 181, 192, 215: self.collectors.append
Attach(collectors, collector) == Append(collectors, collector)

\* a discovery event sent whether or not the collector could be constructed
FoundEventsAlways(kind, log_filename, outcome) ==
    <<Event(kind, "found", None, log_filename)>>

\* lines 202 and 225: the discovery event follows the append inside the try
FoundEvents(kind, log_filename, outcome) ==
    IF outcome = "ok" THEN <<Event(kind, "found", None, log_filename)>> ELSE <<>>

\* lines 168-185: one of the three fixed collectors; category is the key of
\* self.intervals the method reads
SetupFixed(at, category, cls) ==
    /\ pc = at /\ status = "constructing"
    /\ IF category \in DOMAIN self.intervals
       THEN /\ self' = [self EXCEPT !.collectors =
                    Attach(@, Collector(cls, self.intervals[category], 0, "None", "None"))]
            /\ pc' = Flow(pc)
            /\ UNCHANGED <<status, error>>
       ELSE /\ Raise("KeyError")
            /\ UNCHANGED self

\* lines 168-172
SetupMeta ==
    /\ SetupFixed("meta", "meta", "NginxMetaCollector")
    /\ UNCHANGED <<input, config, internal_status_url, scan, todo, probes, events, attempts>>

\* lines 174-178
SetupMetrics ==
    /\ SetupFixed("metrics", "metrics", "NginxMetricsCollector")
    /\ UNCHANGED <<input, config, internal_status_url, scan, todo, probes, events, attempts>>

\* lines 180-185, and line 189: iteritems() starts over access_logs
SetupConfig ==
    /\ SetupFixed("configs", "configs", "NginxConfigCollector")
    /\ todo' = IF status' = "constructing" THEN DOMAIN config.access_logs ELSE todo
    /\ UNCHANGED <<input, config, internal_status_url, scan, probes, events, attempts>>

\* lines 189-209 and 213-232: one pass of a log loop body for the source
\* log_filename; arg is the log_format (access) or the level (error)
SetupLog(kind, cls, log_filename, log_format, level) ==
    IF "logs" \notin DOMAIN self.intervals
    THEN /\ Raise("KeyError")
         /\ UNCHANGED <<self, events, attempts, todo>>
    ELSE \E outcome \in CtorOutcomes :
        /\ attempts' = Append(attempts,
                [kind |-> kind, filename |-> log_filename, log_format |-> log_format,
                 level |-> level, outcome |-> outcome])
        /\ IF outcome = "ok"
           THEN /\ self' = [self EXCEPT !.collectors = Attach(@,
                        Collector(cls, self.intervals["logs"], log_filename, log_format, level))]
                /\ events' = events \o FoundEvents(kind, log_filename, outcome)
                /\ todo' = todo \ {log_filename}
                /\ UNCHANGED <<pc, status, error>>
           ELSE IF outcome \in CaughtErrors
           THEN /\ events' = events \o FoundEvents(kind, log_filename, outcome)
                /\ todo' = todo \ {log_filename}
                /\ UNCHANGED <<self, pc, status, error>>
           ELSE /\ Raise(outcome)
                /\ UNCHANGED <<self, events, todo>>

\* lines 189-209: _setup_access_logs, one source
SetupAccessLog ==
    /\ pc = "access_logs" /\ status = "constructing"
    /\ \E log_filename \in todo :
        LET format_name == config.access_logs[log_filename]
            log_format == LookupFormat(config.log_formats, format_name)
        IN SetupLog("access_log", "NginxAccessLogsCollector", log_filename, log_format, "None")
    /\ UNCHANGED <<input, config, internal_status_url, scan, probes>>

\* line 189 exhausted, line 213: iteritems() starts over error_logs
AccessLogsDone ==
    /\ pc = "access_logs" /\ status = "constructing"
    /\ todo = {}
    /\ todo' = DOMAIN config.error_logs
    /\ pc' = Flow(pc)
    /\ UNCHANGED <<input, status, error, self, config, internal_status_url, scan, probes,
                   events, attempts>>

\* lines 213-232: _setup_error_logs, one source
SetupErrorLog ==
    /\ pc = "error_logs" /\ status = "constructing"
    /\ \E log_filename \in todo :
        SetupLog("error_log", "NginxErrorLogsCollector", log_filename, "None",
                 config.error_logs[log_filename])
    /\ UNCHANGED <<input, config, internal_status_url, scan, probes>>

\* line 213 exhausted: __init__ returns the object to its caller
Finish ==
    /\ pc = "error_logs" /\ status = "constructing"
    /\ todo = {}
    /\ status' = "active"
    /\ pc' = Flow(pc)
    /\ UNCHANGED <<input, error, self, config, internal_status_url, scan, todo, probes,
                   events, attempts>>

\* lines 24 and 236: the class attribute 'type'
Type == IF input.cls = "ContainerNginxObject" THEN "container_nginx" ELSE "nginx"

\* a definition that reads the class attribute
DefinitionFromClass ==
    [type |-> Type, local_id |-> self.local_id_cache, root_uuid |-> self.root_uuid]

\* lines 74-77: the definition property; self.local_id (AbstractObject) reads
\* the local_id_cache that line 34 sets
Definition ==
    [type |-> "nginx", local_id |-> self.local_id_cache, root_uuid |-> self.root_uuid]

Next ==
    \/ Begin
    \/ FullParse
    \/ PlusStart
    \/ Probe
    \/ PlusInternalDone
    \/ PlusReturn
    \/ StubStart
    \/ StubReturn
    \/ SetupMeta
    \/ SetupMetrics
    \/ SetupConfig
    \/ SetupAccessLog
    \/ AccessLogsDone
    \/ SetupErrorLog
    \/ Finish

Spec == Init /\ [][Next]_vars

\* ------------------------------------------------------------- properties
\* the probes of one pass, in the order issued
PassProbes(pass) == SelectSeq(probes, LAMBDA r : r.pass = pass)

\* the operator override of a pass as a list of zero or one url
OverrideOf(key) == IF key \in DOMAIN input.nginx THEN <<input.nginx[key]>> ELSE <<>>

\* the effective candidate list of a pass: config-discovered, then override
EffectiveList(pass) ==
    CASE pass = "stub" -> input.parsed.stub_status_urls \o OverrideOf("stub_status")
      [] pass = "plus_internal" ->
            input.parsed.plus_status_internal_urls \o OverrideOf("plus_status")
      [] OTHER -> input.parsed.plus_status_external_urls

AnyAlive(P) == \E k \in DOMAIN P : P[k].alive

\* the constructor is past the plus pass (line 59 has run)
PlusResolved == pc \notin {"new", "parse", "plus_start", "plus_internal", "plus_external"}

\* the constructor is past the stub pass (line 63 has run)
StubResolved == PlusResolved /\ pc \notin {"stub_start", "stub"}

\* C1: when a resolver pass returns, it returns the full url of the first
\* candidate of the effective list (config-discovered candidates in discovery
\* order, then the operator override) that has a probe classified alive: the
\* probes follow the effective list in order, every candidate before the
\* returned one was probed and none of its probes was alive; and it returns
\* None exactly when every candidate was probed and no probe was alive.
C1_FirstAliveInListOrder ==
    (pc \in ScanPcs /\ status = "constructing" /\ ScanReturned) =>
        LET P == PassProbes(pc)
            E == EffectiveList(pc)
        IN /\ \A k \in DOMAIN P :
                /\ P[k].idx \in DOMAIN E
                /\ P[k].url \in {E[P[k].idx], HTTP \o E[P[k].idx], HTTPS \o E[P[k].idx]}
                /\ \A j \in 1..(k - 1) : P[j].idx <= P[k].idx /\ ~P[j].alive
           /\ IF AnyAlive(P)
              THEN /\ scan.ret = P[Len(P)].url
                   /\ \A c \in 1..P[Len(P)].idx : \E j \in DOMAIN P : P[j].idx = c
              ELSE /\ scan.ret = None
                   /\ \A c \in DOMAIN E : \E j \in DOMAIN P : P[j].idx = c
           /\ (scan.ret = None) <=> ~AnyAlive(P)

\* C1 witness: the stub pass returns the operator override, the last of
\* three candidates, after both config-discovered candidates failed
C1_Witness ==
    /\ pc = "stub" /\ ScanReturned
    /\ Len(input.parsed.stub_status_urls) = 2
    /\ "stub_status" \in DOMAIN input.nginx
    /\ scan.ret \in {input.nginx["stub_status"], HTTPS \o input.nginx["stub_status"]}
    /\ Len(PassProbes("stub")) >= 5

\* C2: a probe response is classified alive (the scan returns the probed url)
\* for the structured flavor iff the body is non-empty, for the plain-text
\* flavor iff the body is non-empty and contains "Active connections"; an
\* empty or missing body, or a raised error, is never alive.
C2_Classification ==
    (pc \in ScanPcs /\ Len(PassProbes(pc)) > 0) =>
        LET P == PassProbes(pc)
            last == P[Len(P)]
            r == scan.status_response
            nonempty == r.kind = "body" /\ r.body # <<>>
        IN /\ last.alive <=>
                IF pc = "stub"
                THEN nonempty /\ Contains(r.body, Marker)
                ELSE nonempty
           /\ IF last.alive THEN scan.ret = last.url ELSE scan.ret = None

\* C2 witness: a plain-text body with the marker inside other text is alive
C2_Witness ==
    /\ pc = "stub" /\ scan.ret # None
    /\ scan.status_response.kind = "body"
    /\ scan.status_response.body # Marker
    /\ Len(scan.status_response.body) > Len(Marker)

\* C3: whenever the configured external candidate list is non-empty, the
\* resolved external url is never None; if no external probe was alive it is
\* "http://" followed by the first configured external candidate, and exactly
\* one external "detected" event, carrying that url, was emitted.
C3_ExternalNeverNone ==
    (PlusResolved /\ Len(input.parsed.plus_status_external_urls) > 0) =>
        LET first == input.parsed.plus_status_external_urls[1]
            emitted == SelectSeq(events, LAMBDA e : e.flavor = "plus_external")
        IN /\ self.plus_status_external_url # None
           /\ ~AnyAlive(PassProbes("plus_external")) =>
                /\ self.plus_status_external_url = HTTP \o first
                /\ emitted = <<Event("plus_external", "detected", HTTP \o first, 0)>>

\* C3 witness: two external candidates, every probe failed, url synthesized
C3_Witness ==
    /\ pc = "stub_start"
    /\ Len(input.parsed.plus_status_external_urls) = 2
    /\ Len(PassProbes("plus_external")) = 4
    /\ ~AnyAlive(PassProbes("plus_external"))
    /\ self.plus_status_external_url = HTTP \o input.parsed.plus_status_external_urls[1]

\* C4 as stated: definition reports the type tag of the instance's class, the
\* base tag for a base instance and the container tag for a container one.
C4_TypeOfVariant ==
    (pc # "new") => Definition.type = Type

\* C4 amended: definition reports the hard-coded tag "nginx" for a base
\* instance and for a container instance alike, whatever the field values;
\* only the class attribute carries the container tag.
C4_TypeHardCoded ==
    (pc # "new") =>
        /\ Definition.type = "nginx"
        /\ input.cls = "ContainerNginxObject" => Type # Definition.type

\* C4 witness: a constructed container instance whose definition says "nginx"
C4_Witness ==
    /\ status = "active"
    /\ input.cls = "ContainerNginxObject"
    /\ Type = "container_nginx"
    /\ self.root_uuid # "None"
    /\ Definition.type = "nginx"

EventsOf(flavor) == SelectSeq(events, LAMBDA e : e.flavor = flavor)

\* the internal scan has returned and its event code (lines 127-131) has run
InternalScanned == pc \notin {"new", "parse", "plus_start", "plus_internal"}

\* the value the internal scan returned
InternalResolved ==
    IF pc = "plus_external" THEN internal_status_url ELSE self.plus_status_internal_url

\* exactly one event of the flavor: detected with the url, or not found
OneEvent(flavor, url) ==
    EventsOf(flavor) =
        IF url # None
        THEN <<Event(flavor, "detected", url, 0)>>
        ELSE <<Event(flavor, "not_found", None, 0)>>

\* C5 as stated: each resolver invocation (stub, plus-internal, plus-external)
\* is followed by exactly one event, "detected" with the url when a url was
\* resolved and "not found" when none was.
C5_OneEventPerInvocation ==
    /\ InternalScanned => OneEvent("plus_internal", InternalResolved)
    /\ PlusResolved => OneEvent("plus_external", self.plus_status_external_url)
    /\ StubResolved => OneEvent("stub_status", self.stub_status_url)

\* C5 amended: the stub invocation is followed by exactly one event, "detected"
\* with the url or "not found"; a plus-internal or plus-external invocation is
\* followed by one "detected" event carrying the resolved url when a url was
\* resolved and by no event at all when none was.
C5_EventsPerInvocation ==
    /\ ~InternalScanned => EventsOf("plus_internal") = <<>>
    /\ InternalScanned =>
        EventsOf("plus_internal") =
            IF InternalResolved # None
            THEN <<Event("plus_internal", "detected", InternalResolved, 0)>>
            ELSE <<>>
    /\ ~PlusResolved => EventsOf("plus_external") = <<>>
    /\ PlusResolved =>
        EventsOf("plus_external") =
            IF self.plus_status_external_url # None
            THEN <<Event("plus_external", "detected", self.plus_status_external_url, 0)>>
            ELSE <<>>
    /\ ~StubResolved => EventsOf("stub_status") = <<>>
    /\ StubResolved => OneEvent("stub_status", self.stub_status_url)

\* C5 witness: every internal probe failed and there is no external candidate:
\* the only status event of the construction is the stub "not found" one
C5_Witness ==
    /\ status = "active"
    /\ Len(PassProbes("plus_internal")) >= 2
    /\ self.plus_status_internal_url = None
    /\ self.plus_status_external_url = None
    /\ events = <<Event("stub_status", "not_found", None, 0)>>

\* the collectors of a class, in list order
CollectorsOf(cls) == SelectSeq(self.collectors, LAMBDA c : c.cls = cls)

\* the attempts to construct a collector for one log source
AttemptsOn(kind, log_filename) ==
    SelectSeq(attempts, LAMBDA a : a.kind = kind /\ a.filename = log_filename)

FileAccessErrors == {"IOError", "OSError"}

\* _setup_access_logs has returned
AccessLogsDoneAt == pc \in {"error_logs", "done"}

\* C6: an inaccessible access-log file never aborts the construction, and once
\* the access-log loop is over the collector list holds exactly one access-log
\* collector per source whose collector could be constructed, none for a source
\* whose file was inaccessible, and one meta, one metrics and one config
\* collector beside them.
C6_AccessLogIsolation ==
    /\ status = "failed" => error \notin FileAccessErrors
    /\ AccessLogsDoneAt =>
        /\ \A f \in DOMAIN input.parsed.access_logs :
            /\ Len(AttemptsOn("access_log", f)) = 1
            /\ LET a == AttemptsOn("access_log", f)[1]
                   attached == SelectSeq(CollectorsOf("NginxAccessLogsCollector"),
                                         LAMBDA c : c.filename = f)
               IN /\ a.outcome \in {"ok"} \cup FileAccessErrors
                  /\ Len(attached) = IF a.outcome = "ok" THEN 1 ELSE 0
        /\ \A k \in DOMAIN CollectorsOf("NginxAccessLogsCollector") :
            CollectorsOf("NginxAccessLogsCollector")[k].filename
                \in DOMAIN input.parsed.access_logs
        /\ Len(CollectorsOf("NginxMetaCollector")) = 1
        /\ Len(CollectorsOf("NginxMetricsCollector")) = 1
        /\ Len(CollectorsOf("NginxConfigCollector")) = 1

\* C6 witness: two access-log sources, one inaccessible: the construction
\* completed with one access-log collector and the three fixed ones
C6_Witness ==
    /\ status = "active"
    /\ Cardinality(DOMAIN input.parsed.access_logs) = 2
    /\ \E f \in DOMAIN input.parsed.access_logs :
        AttemptsOn("access_log", f)[1].outcome \in FileAccessErrors
    /\ Len(CollectorsOf("NginxAccessLogsCollector")) = 1
    /\ Len(self.collectors) = 4

\* C7 as stated: each behaviour flag takes the per-instance override whenever
\* the discovery data supplies one (an override of False included) and the
\* deployment-wide default only when none is supplied.
C7_OverrideTakesPrecedence ==
    (pc # "new" /\ "nginx" \in DOMAIN input.containers) =>
        LET default_config == input.containers["nginx"]
            expected(key) ==
                IF key \in DOMAIN input.data
                THEN input.data[key]
                ELSE Get(default_config, key, FALSE)
        IN /\ self.upload_config = expected("upload_config")
           /\ self.run_config_test = expected("run_test")
           /\ self.upload_ssl = expected("upload_ssl")

\* C8 as stated: the meta, metrics and config collectors are attached for
\* every interval mapping interval resolution can produce, the fallback
\* {"default": 10} included: the constructor never fails while attaching them.
C8_FixedCollectorsAlwaysAttached ==
    /\ pc \in {"meta", "metrics", "configs"} => status # "failed"
    /\ (pc \in {"access_logs", "error_logs", "done"}) =>
        /\ Len(CollectorsOf("NginxMetaCollector")) = 1
        /\ Len(CollectorsOf("NginxMetricsCollector")) = 1
        /\ Len(CollectorsOf("NginxConfigCollector")) = 1

\* C9: a log-collector construction failure that is not a file-access failure
\* is the last thing the constructor does: the attempt is the last one made,
\* the constructor has failed with that error, the source has no collector
\* and was not taken off the loop, and the instance is not active.
C9_OtherFailureAborts ==
    \A k \in DOMAIN attempts :
        attempts[k].outcome \notin ({"ok"} \cup FileAccessErrors) =>
            /\ k = Len(attempts)
            /\ status = "failed"
            /\ error = attempts[k].outcome
            /\ attempts[k].filename \in todo
            /\ \A c \in DOMAIN self.collectors :
                ~(/\ self.collectors[c].filename = attempts[k].filename
                  /\ self.collectors[c].cls =
                        IF attempts[k].kind = "access_log"
                        THEN "NginxAccessLogsCollector"
                        ELSE "NginxErrorLogsCollector")

\* C9 witness: the first of two access-log sources failed with a ValueError;
\* the other source is left unprocessed
C9_Witness ==
    /\ status = "failed" /\ error = "ValueError"
    /\ pc = "access_logs"
    /\ Len(attempts) = 1
    /\ Cardinality(todo) = 2

\* C10 as stated: an access-log source whose format name has no definition in
\* log_formats gets no collector constructed: assembly aborts at the lookup.
C10_MissingFormatAborts ==
    \A k \in DOMAIN attempts :
        attempts[k].kind = "access_log" =>
            input.parsed.access_logs[attempts[k].filename]
                \in DOMAIN input.parsed.log_formats

\* C10 amended: a format name without a definition in log_formats is no failure
\* of assembly: the lookup yields None, the collector for that source is
\* constructed with log_format None, and the constructor fails in the
\* access-log loop only through the interval lookup or the collector's own
\* constructor.
C10_MissingFormatIsNone ==
    /\ \A k \in DOMAIN attempts :
        attempts[k].kind = "access_log" =>
            LET format_name == input.parsed.access_logs[attempts[k].filename]
            IN attempts[k].log_format =
                IF format_name \in DOMAIN input.parsed.log_formats
                THEN input.parsed.log_formats[format_name]
                ELSE "None"
    /\ \A c \in DOMAIN self.collectors :
        self.collectors[c].cls = "NginxAccessLogsCollector" =>
            LET format_name == input.parsed.access_logs[self.collectors[c].filename]
            IN format_name \notin DOMAIN input.parsed.log_formats =>
                self.collectors[c].log_format = "None"
    /\ (status = "failed" /\ pc = "access_logs") =>
        \/ error = "KeyError" /\ "logs" \notin DOMAIN self.intervals
        \/ /\ Len(attempts) > 0
           /\ attempts[Len(attempts)].outcome = error

\* C10 witness: a source with the undefined format 'custom' has its collector
\* attached, with log_format None, in a completed construction
C10_Witness ==
    /\ status = "active"
    /\ \E c \in DOMAIN self.collectors :
        /\ self.collectors[c].cls = "NginxAccessLogsCollector"
        /\ input.parsed.access_logs[self.collectors[c].filename] = "custom"
        /\ self.collectors[c].log_format = "None"

\* C12: once the status fields are set, stub_status_enabled is true iff
\* stub_status_url is not None and plus_status_enabled is true iff at least one
\* of the two plus urls is not None; in no state is an enabled flag true
\* without a url it derives from.
C12_EnabledDerivedFromUrls ==
    /\ PlusResolved =>
        (self.plus_status_enabled <=>
            (self.plus_status_internal_url # None \/ self.plus_status_external_url # None))
    /\ StubResolved => (self.stub_status_enabled <=> self.stub_status_url # None)
    /\ self.plus_status_enabled =>
        (self.plus_status_internal_url # None \/ self.plus_status_external_url # None)
    /\ self.stub_status_enabled => self.stub_status_url # None

\* C12 witness: only the internal plus url resolved, and the plus flag is set
C12_Witness ==
    /\ StubResolved
    /\ self.plus_status_internal_url # None
    /\ self.plus_status_external_url = None
    /\ self.plus_status_enabled
    /\ ~self.stub_status_enabled

\* the candidate counts as specifying its transport: it begins with http
SpecifiesScheme(url) == StartsWith(url, HttpWord)

\* the probes a pass issued for the candidate at one list position
ProbesOf(pass, idx) == SelectSeq(PassProbes(pass), LAMBDA r : r.idx = idx)

\* C13 as stated: within a pass a candidate with a scheme is probed exactly
\* once, as-is; a candidate without a scheme at most twice, http:// first and
\* https:// second, the second only if the first was not alive; and no probe
\* follows the first alive one.
C13_ProbesPerCandidate ==
    \A pass \in ScanPcs :
        /\ \A k \in 1..(Len(PassProbes(pass)) - 1) : ~PassProbes(pass)[k].alive
        /\ \A idx \in DOMAIN EffectiveList(pass) :
            LET c == EffectiveList(pass)[idx]
                Q == ProbesOf(pass, idx)
            IN Len(Q) > 0 =>
                IF SpecifiesScheme(c)
                THEN Len(Q) = 1 /\ Q[1].url = c
                ELSE /\ Len(Q) <= 2
                     /\ Q[1].url = HTTP \o c
                     /\ Len(Q) = 2 => (Q[2].url = HTTPS \o c /\ ~Q[1].alive)

\* C14: a probe that raises is a not-alive probe: the scan does not return at
\* it, goes on with the next transport of the candidate or, after the last
\* transport, with the next candidate, and the constructor never fails inside
\* a scan.
C14_RaiseIsNotAlive ==
    /\ pc \in ScanPcs => status = "constructing"
    /\ (pc \in ScanPcs /\ Len(PassProbes(pc)) > 0
            /\ scan.status_response.kind = "raise") =>
        LET P == PassProbes(pc)
            last == P[Len(P)]
            Q == ProbesOf(pc, last.idx)
        IN /\ ~last.alive
           /\ scan.ret = None
           /\ IF Len(Q) < Len(PROTOS)
              THEN scan.i = last.idx /\ scan.p = Len(Q) + 1
              ELSE scan.i = last.idx + 1 /\ scan.p = 1
           /\ scan.i <= Len(ScanList) => ~ScanReturned

\* C14 witness: the http:// probe of the first of two candidates raised and
\* the scan stands at its https:// probe
C14_Witness ==
    /\ pc = "stub"
    /\ Len(ScanList) >= 2
    /\ Len(PassProbes("stub")) = 1
    /\ scan.status_response.kind = "raise"
    /\ scan.i = 1 /\ scan.p = 2
    /\ ~ScanReturned

\* the events the two resolver methods emit
StatusEvents ==
    SelectSeq(events, LAMBDA e : e.flavor \in {"stub_status", "plus_internal", "plus_external"})

\* a collector was attached or the construction of one was attempted
AssemblyStarted == self.collectors # <<>> \/ attempts # <<>>

\* the three collectors every instance gets
FixedCollectors == {"NginxMetaCollector", "NginxMetricsCollector", "NginxConfigCollector"}

\* C15: the phases of a construction are strictly ordered: nothing is probed,
\* reported or attached before the full parse has completed (so nothing at all
\* when it fails); assembly starts only after both resolver passes are over,
\* and from then on no probe is issued and no status event emitted; assembly
\* runs once, so no fixed collector and no log source is set up twice.
C15_PhasesOrdered ==
    /\ [](/\ pc \in {"new", "parse"} =>
                probes = <<>> /\ events = <<>> /\ ~AssemblyStarted
          /\ AssemblyStarted => StubResolved
          /\ \A cls \in FixedCollectors : Len(CollectorsOf(cls)) <= 1
          /\ \A k \in {"access_log", "error_log"} :
                \A f \in DOMAIN input.parsed.access_logs \cup DOMAIN input.parsed.error_logs :
                    Len(AttemptsOn(k, f)) <= 1)
    /\ [][AssemblyStarted => probes' = probes /\ StatusEvents' = StatusEvents]_vars

\* C15 witness: a completed construction that probed in both passes, reported
\* both, and then attached its collectors
C15_Witness ==
    /\ status = "active"
    /\ PassProbes("plus_internal") # <<>>
    /\ PassProbes("stub") # <<>>
    /\ Len(StatusEvents) >= 2
    /\ Len(self.collectors) >= 3

\* C16: a completed construction's collector list is one meta, one metrics and
\* one config collector, in that order, then all access-log collectors, then
\* all error-log collectors; and every step leaves the list alone or appends
\* one collector at its end.
C16_CollectorOrder ==
    /\ [](status = "active" =>
            LET n == Len(self.collectors)
                na == Len(CollectorsOf("NginxAccessLogsCollector"))
                ne == Len(CollectorsOf("NginxErrorLogsCollector"))
            IN /\ n = 3 + na + ne
               /\ self.collectors[1].cls = "NginxMetaCollector"
               /\ self.collectors[2].cls = "NginxMetricsCollector"
               /\ self.collectors[3].cls = "NginxConfigCollector"
               /\ \A k \in 4..(3 + na) : self.collectors[k].cls = "NginxAccessLogsCollector"
               /\ \A k \in (4 + na)..n : self.collectors[k].cls = "NginxErrorLogsCollector")
    /\ [][\/ self.collectors' = self.collectors
          \/ /\ Len(self.collectors') = Len(self.collectors) + 1
             /\ SubSeq(self.collectors', 1, Len(self.collectors)) = self.collectors]_vars

\* C16 witness: a completed construction holding access-log and error-log
\* collectors behind the three fixed ones
C16_Witness ==
    /\ status = "active"
    /\ Len(CollectorsOf("NginxAccessLogsCollector")) >= 1
    /\ Len(CollectorsOf("NginxErrorLogsCollector")) >= 1
    /\ Len(self.collectors) >= 5

\* the "found" events of one log source
FoundOn(kind, log_filename) ==
    SelectSeq(events, LAMBDA e :
        e.flavor = kind /\ e.outcome = "found" /\ e.filename = log_filename)

\* the collectors attached for one log source
AttachedOn(cls, log_filename) ==
    SelectSeq(CollectorsOf(cls), LAMBDA c : c.filename = log_filename)

\* the collector class of a log kind
LogCollector(kind) ==
    IF kind = "access_log" THEN "NginxAccessLogsCollector" ELSE "NginxErrorLogsCollector"

\* the log sources of a kind the configuration names
LogSources(kind) ==
    IF kind = "access_log" THEN DOMAIN input.parsed.access_logs
    ELSE DOMAIN input.parsed.error_logs

\* C17: for every access-log and error-log source there is a "found" event
\* naming the file iff a collector for it is attached, which is iff its
\* collector could be constructed; an inaccessible source gets neither and
\* does not fail the construction; a completed construction has attempted
\* every source, and has as many "found" events as log collectors.
C17_FoundIffAttached ==
    /\ \A kind \in {"access_log", "error_log"} : \A f \in LogSources(kind) :
        /\ Len(FoundOn(kind, f)) = Len(AttachedOn(LogCollector(kind), f))
        /\ Len(FoundOn(kind, f)) =
            Len(SelectSeq(AttemptsOn(kind, f), LAMBDA a : a.outcome = "ok"))
        /\ status = "active" => Len(AttemptsOn(kind, f)) = 1
    /\ Len(SelectSeq(events, LAMBDA e : e.outcome = "found")) =
        Len(CollectorsOf("NginxAccessLogsCollector"))
            + Len(CollectorsOf("NginxErrorLogsCollector"))
    /\ status = "failed" => error \notin FileAccessErrors

\* C17 witness: the first access log was inaccessible and got no event, the
\* second was processed after it and got its collector and its event
C17_Witness ==
    /\ status = "active"
    /\ Len(attempts) >= 2
    /\ attempts[1].kind = "access_log" /\ attempts[1].outcome \in FileAccessErrors
    /\ attempts[2].kind = "access_log" /\ attempts[2].outcome = "ok"
    /\ FoundOn("access_log", attempts[1].filename) = <<>>
    /\ Len(FoundOn("access_log", attempts[2].filename)) = 1
    /\ Len(self.collectors) = 4

\* C18 as stated: endpoint resolution leaves the candidate lists of the parsed
\* configuration as the parse produced them: from the parse on, through both
\* resolver passes and after them, each of the three lists holds exactly the
\* config-discovered candidates, with no operator override added.
C18_ResolutionLeavesConfig ==
    pc \notin {"new", "parse"} =>
        /\ config.stub_status_urls = input.parsed.stub_status_urls
        /\ config.plus_status_internal_urls = input.parsed.plus_status_internal_urls
        /\ config.plus_status_external_urls = input.parsed.plus_status_external_urls

\* C19 as stated: a root_uuid supplied in the construction data is the
\* instance's root_uuid and the one its definition reports, with or without a
\* root object; root_uuid is None only when the data supplies none and there
\* is no root object.
C19_SuppliedRootUuidKept ==
    pc # "new" =>
        /\ "root_uuid" \in DOMAIN input.data =>
            /\ self.root_uuid = input.data["root_uuid"]
            /\ Definition.root_uuid = input.data["root_uuid"]
        /\ self.root_uuid = "None" =>
            ("root_uuid" \notin DOMAIN input.data /\ input.root_object = "None")

\* the url begins with a transport scheme
HasScheme(url) == StartsWith(url, HTTP) \/ StartsWith(url, HTTPS)

\* the forms of a candidate that carry exactly one transport scheme: the
\* candidate itself when it has one, else the candidate behind http:// or
\* https://; a candidate that begins with http without being a scheme is
\* accepted in either reading
OneSchemeForms(c) ==
    IF HasScheme(c) THEN {c}
    ELSE {HTTP \o c, HTTPS \o c} \cup (IF SpecifiesScheme(c) THEN {c} ELSE {})

\* the url is one transport scheme followed by the host and path of one of
\* the candidates
OneSchemeThenCandidate(url, candidates) ==
    \E k \in DOMAIN candidates : url \in OneSchemeForms(candidates[k])

\* C20 as stated: every resolved status url that is not None, the synthesized
\* external one included, is exactly one transport scheme followed by the host
\* and path of a candidate of its list; a candidate that carries a scheme is
\* never given a second one.
C20_ExactlyOneScheme ==
    /\ (PlusResolved /\ self.plus_status_internal_url # None) =>
        OneSchemeThenCandidate(self.plus_status_internal_url, EffectiveList("plus_internal"))
    /\ (PlusResolved /\ self.plus_status_external_url # None) =>
        OneSchemeThenCandidate(self.plus_status_external_url, EffectiveList("plus_external"))
    /\ (StubResolved /\ self.stub_status_url # None) =>
        OneSchemeThenCandidate(self.stub_status_url, EffectiveList("stub"))

====
